---- MODULE Spec2Model ----
(***************************************************************************)
(* Model of the similarity analysis core of q2bs                           *)
(* (src/similarity_analyzer.py, class SimilarityAnalyzer).                 *)
(*                                                                         *)
(* A Python str is a sequence of one-character strings; a character that   *)
(* is not ASCII is written as its code point ("U+0130").  None is the      *)
(* value NoneValue.  A float that is the quotient of two small integers is *)
(* the reduced fraction <<num, den>>.                                      *)
(***************************************************************************)
EXTENDS Integers, Sequences, FiniteSets, TLC

\* ------------------------------------------------------------------------
\* Bounds of the model
\* ------------------------------------------------------------------------
\* number of fragments an input text is put together from
MaxFrags == 4
\* largest n-gram size tried
MaxN == 3
\* number of distinct n-grams the sets given to the Jaccard function draw on
MaxGrams == 4
\* largest number of rows in articles.csv
MaxArticles == 3
\* largest number of rows in articles.csv when only clustering is looked at
MaxClusterArticles == 4
\* largest number of rows in articles.csv when analyze() runs
MaxRunArticles == 3
\* The corpus size up to which analyze() matches pairwise. The code has
\* max_articles_for_pairwise = 10000; the model scales it down with the
\* corpus, keeping files at, below and above it.
max_articles_for_pairwise == 2
\* how often articles.csv is replaced between runs of analyze()
MaxReplace == 1
\* the last tick of the clock
MaxClock == 1
\* largest number of articles the auditor stores
MaxStored == 3
\* largest number of rows of an articles.csv not written by the auditor
MaxRawRows == 2

\* ------------------------------------------------------------------------
\* Characters
\* ------------------------------------------------------------------------
NoneValue == <<"None">>

AttributeError == <<"AttributeError">>

UpperLetters == <<"A","B","C","D","E","F","G","H","I","J","K","L","M",
                  "N","O","P","Q","R","S","T","U","V","W","X","Y","Z">>

LowerLetters == <<"a","b","c","d","e","f","g","h","i","j","k","l","m",
                  "n","o","p","q","r","s","t","u","v","w","x","y","z">>

Digits == {"0","1","2","3","4","5","6","7","8","9"}

\* the characters \s matches and str.split() splits at (Py_UNICODE_ISSPACE):
\* the ASCII ones, and U+00A0 standing for the non-ASCII ones
IsSpace(c) == c \in {" ", "\t", "\n", "\r", "\f", "U+00A0"}

\* [a-z0-9]
IsLowerAlnum(c) == (\E k \in 1..26 : LowerLetters[k] = c) \/ c \in Digits

\* str.lower() of one character: a sequence, since U+0130 lowers to two
\* characters ("i" and the combining dot U+0307)
LowerChar(c) ==
    IF \E k \in 1..26 : UpperLetters[k] = c
    THEN <<LowerLetters[CHOOSE k \in 1..26 : UpperLetters[k] = c]>>
    ELSE IF c = "U+00C9" THEN <<"U+00E9">>
    ELSE IF c = "U+0130" THEN <<"i", "U+0307">>
    ELSE <<c>>

\* ------------------------------------------------------------------------
\* normalize_text
\* ------------------------------------------------------------------------
\* `not text`: true of None and of the empty string
FalsyEmptyOnly(text) == text = <<>>

Falsy(text) == text = NoneValue \/ text = <<>>

\* text.lower(); None has no such method
RECURSIVE LowerFrom(_, _)
LowerFrom(text, i) ==
    IF i > Len(text) THEN <<>>
    ELSE LowerChar(text[i]) \o LowerFrom(text, i + 1)

Lower(text) == IF text = NoneValue THEN AttributeError ELSE LowerFrom(text, 1)

\* whether text[i..] starts with the characters of lit
StartsWithAt(text, i, lit) ==
    /\ i + Len(lit) - 1 <= Len(text)
    /\ \A k \in 1..Len(lit) : text[i + k - 1] = lit[k]

\* length of the prefix of http[s]?:// matching at i, 0 when none does.
\* [s]? is greedy and backtracks: "https://" is tried first, then "http://"
UrlPrefixLenHttpsOnly(text, i) ==
    IF StartsWithAt(text, i, <<"h","t","t","p","s",":","/","/">>) THEN 8 ELSE 0

UrlPrefixLen(text, i) ==
    IF StartsWithAt(text, i, <<"h","t","t","p","s",":","/","/">>) THEN 8
    ELSE IF StartsWithAt(text, i, <<"h","t","t","p",":","/","/">>) THEN 7
    ELSE 0

\* end (exclusive) of the greedy \S+ starting at i
RECURSIVE NonSpaceRunEnd(_, _)
NonSpaceRunEnd(text, i) ==
    IF i > Len(text) \/ IsSpace(text[i]) THEN i
    ELSE NonSpaceRunEnd(text, i + 1)

\* end (exclusive) of the match of http[s]?://\S+ at i, 0 when there is none
UrlMatchEnd(text, i) ==
    LET p == UrlPrefixLen(text, i)
    IN  IF p = 0 THEN 0
        ELSE IF NonSpaceRunEnd(text, i + p) = i + p THEN 0
        ELSE NonSpaceRunEnd(text, i + p)

\* re.sub(r'http[s]?://\S+', '', text): leftmost matches, left to right
RECURSIVE RemoveUrlsFrom(_, _)
RemoveUrlsFrom(text, i) ==
    IF i > Len(text) THEN <<>>
    ELSE IF UrlMatchEnd(text, i) # 0 THEN RemoveUrlsFrom(text, UrlMatchEnd(text, i))
    ELSE <<text[i]>> \o RemoveUrlsFrom(text, i + 1)

RemoveUrls(text) ==
    IF text = AttributeError THEN AttributeError ELSE RemoveUrlsFrom(text, 1)

\* punctuation kept as it is
KeepAlnumAndPunctuation(text) == text

\* re.sub(r'[^a-z0-9\s]', ' ', text)
KeepAlnum(text) ==
    IF text = AttributeError THEN AttributeError
    ELSE [k \in 1..Len(text) |->
            IF IsLowerAlnum(text[k]) \/ IsSpace(text[k]) THEN text[k] ELSE " "]

\* text.split(): the maximal runs of non-whitespace characters
RECURSIVE SplitFrom(_, _)
SplitFrom(text, i) ==
    IF i > Len(text) THEN <<>>
    ELSE IF IsSpace(text[i]) THEN SplitFrom(text, i + 1)
    ELSE <<SubSeq(text, i, NonSpaceRunEnd(text, i) - 1)>>
            \o SplitFrom(text, NonSpaceRunEnd(text, i))

\* ' '.join(words)
RECURSIVE JoinFrom(_, _)
JoinFrom(words, k) ==
    IF k > Len(words) THEN <<>>
    ELSE IF k = Len(words) THEN words[k]
    ELSE words[k] \o <<" ">> \o JoinFrom(words, k + 1)

\* end (exclusive) of the run of whitespace starting at i
RECURSIVE SpaceRunEnd(_, _)
SpaceRunEnd(text, i) ==
    IF i > Len(text) \/ ~IsSpace(text[i]) THEN i
    ELSE SpaceRunEnd(text, i + 1)

\* re.sub(r'\s+', ' ', text): collapses, does not trim
RECURSIVE SquashFrom(_, _)
SquashFrom(text, i) ==
    IF i > Len(text) THEN <<>>
    ELSE IF IsSpace(text[i]) THEN <<" ">> \o SquashFrom(text, SpaceRunEnd(text, i))
    ELSE <<text[i]>> \o SquashFrom(text, i + 1)

CollapseWsNoTrim(text) ==
    IF text = AttributeError THEN AttributeError ELSE SquashFrom(text, 1)

\* ' '.join(text.split())
CollapseWs(text) ==
    IF text = AttributeError THEN AttributeError
    ELSE JoinFrom(SplitFrom(text, 1), 1)

\* the two last steps in the wrong order
normalize_text_swapped(text) ==
    IF Falsy(text) THEN <<>>
    ELSE KeepAlnum(CollapseWs(RemoveUrls(Lower(text))))

normalize_text(text) ==
    IF Falsy(text) THEN <<>>
    ELSE CollapseWs(KeepAlnum(RemoveUrls(Lower(text))))

\* ------------------------------------------------------------------------
\* generate_ngrams
\* ------------------------------------------------------------------------
\* text[i:i+n], i counted from 0
Slice(text, i, n) == SubSeq(text, i + 1, i + n)

\* for i in range(stop): ngrams.add(text[i:i+n])
RECURSIVE NgramLoop(_, _, _, _, _)
NgramLoop(text, n, i, stop, ngrams) ==
    IF i >= stop THEN ngrams
    ELSE NgramLoop(text, n, i + 1, stop, ngrams \cup {Slice(text, i, n)})

\* without the return of {text} for a text shorter than n
generate_ngrams_unguarded(title, n) ==
    LET text == normalize_text(title)
    IN  IF text = AttributeError THEN AttributeError
        ELSE NgramLoop(text, n, 0, Len(text) - n + 1, {})

\* range(len(text) - n): the last window is left out
generate_ngrams_short(title, n) ==
    LET text == normalize_text(title)
    IN  IF text = AttributeError THEN AttributeError
        ELSE IF Len(text) < n THEN {text}
        ELSE NgramLoop(text, n, 0, Len(text) - n, {})

generate_ngrams(title, n) ==
    LET text == normalize_text(title)
    IN  IF text = AttributeError THEN AttributeError
        ELSE IF Len(text) < n THEN {text}
        ELSE NgramLoop(text, n, 0, Len(text) - n + 1, {})

\* ------------------------------------------------------------------------
\* calculate_jaccard_similarity
\* ------------------------------------------------------------------------
RECURSIVE Gcd(_, _)
Gcd(a, b) == IF b = 0 THEN a ELSE Gcd(b, a % b)

\* the float a / b (b > 0) as a reduced fraction; equal floats are equal
\* fractions, the integers being small
Quotient(a, b) == <<a \div Gcd(a, b), b \div Gcd(a, b)>>

\* 0.0
Zero == <<0, 1>>

\* 1.0
One == <<1, 1>>

\* union taken as len(set1) + len(set2)
calculate_jaccard_similarity_sum(set1, set2) ==
    IF set1 = {} \/ set2 = {} THEN Zero
    ELSE LET intersection == Cardinality(set1 \cap set2)
             union == Cardinality(set1) + Cardinality(set2)
         IN  IF union = 0 THEN Zero ELSE Quotient(intersection, union)

calculate_jaccard_similarity(set1, set2) ==
    IF set1 = {} \/ set2 = {} THEN Zero
    ELSE LET intersection == Cardinality(set1 \cap set2)
             union == Cardinality(set1 \cup set2)
         IN  IF union = 0 THEN Zero ELSE Quotient(intersection, union)

\* ------------------------------------------------------------------------
\* Floats as fractions
\* ------------------------------------------------------------------------
\* x >= y
Geq(x, y) == x[1] * y[2] >= y[1] * x[2]

\* x > y
Gt(x, y) == x[1] * y[2] > y[1] * x[2]

\* decimals kept by round(similarity, 4)
RoundDigits == 4

RECURSIVE Pow10(_)
Pow10(d) == IF d = 0 THEN 1 ELSE 10 * Pow10(d - 1)

\* round(x, d): the nearest multiple of 10^-d, a tie going to the even one
RoundTo(x, d) ==
    LET scale == Pow10(d)
        q == (x[1] * scale) \div x[2]
        r == (x[1] * scale) % x[2]
        k == IF 2 * r < x[2] THEN q
             ELSE IF 2 * r > x[2] THEN q + 1
             ELSE IF q % 2 = 0 THEN q ELSE q + 1
    IN  Quotient(k, scale)

\* ------------------------------------------------------------------------
\* Article records: a csv.DictReader row is a function from its keys
\* ------------------------------------------------------------------------
\* article.get(key, "")
Get(article, key) == IF key \in DOMAIN article THEN article[key] ELSE <<>>

\* the {title, url, date} record put into pairs and into cluster files
Entry(article) ==
    [title |-> Get(article, "title"),
     url   |-> Get(article, "url"),
     date  |-> Get(article, "date_parsed")]

\* ------------------------------------------------------------------------
\* find_similar_pairs
\* ------------------------------------------------------------------------
\* article_ngrams: one (article, ngrams) per article, in corpus order
ArticleNgrams(arts, n) ==
    [k \in 1..Len(arts) |->
        [article |-> arts[k], ngrams |-> generate_ngrams(Get(arts[k], "title"), n)]]

\* if similarity >= self.similarity_threshold
RetainStrict(similarity, threshold) == Gt(similarity, threshold)

Retain(similarity, threshold) == Geq(similarity, threshold)

\* first j of the inner loop: range(i + 1, len(article_ngrams))
JStartSelf(i) == i

\* range(i + 2, len(article_ngrams)): the next article is not compared
JStartSkipNext(i) == i + 2

JStart(i) == i + 1

\* the similarity stored in an emitted pair: round(similarity, 4)
RecordedTwoDecimals(similarity) == RoundTo(similarity, RoundDigits - 2)

Recorded(similarity) == RoundTo(similarity, RoundDigits)

\* The two nested loops, from the iteration (i, j) on (indices from 0).
\* acc.similar_pairs and acc.compared are the code's locals; acc.log (the
\* index pairs compared, in order) and acc.idx (the index pair of each
\* emitted pair) are history, kept for the properties.
RECURSIVE CompareLoop(_, _, _, _, _)
CompareLoop(an, threshold, i, j, acc) ==
    IF i >= Len(an) THEN acc
    ELSE IF j >= Len(an) THEN CompareLoop(an, threshold, i + 1, JStart(i + 1), acc)
    ELSE LET similarity ==
                 calculate_jaccard_similarity(an[i + 1].ngrams, an[j + 1].ngrams)
             pair == [article1   |-> Entry(an[i + 1].article),
                      article2   |-> Entry(an[j + 1].article),
                      similarity |-> Recorded(similarity)]
             keep == Retain(similarity, threshold)
         IN  CompareLoop(an, threshold, i, j + 1,
                 [similar_pairs |-> IF keep THEN Append(acc.similar_pairs, pair)
                                    ELSE acc.similar_pairs,
                  compared      |-> acc.compared + 1,
                  log           |-> Append(acc.log, <<i, j>>),
                  idx           |-> IF keep THEN Append(acc.idx, <<i, j>>)
                                    ELSE acc.idx])

find_similar_pairs(arts, threshold, n) ==
    CompareLoop(ArticleNgrams(arts, n), threshold, 0, JStart(0),
                [similar_pairs |-> <<>>, compared |-> 0, log |-> <<>>, idx |-> <<>>])

\* ------------------------------------------------------------------------
\* cluster_by_exact_match
\* ------------------------------------------------------------------------
\* title_groups[article.get('title', '')].append(article): grouped by the
\* title as it is in the record
AddToGroupByRawTitle(groups, key, article) ==
    LET raw == Get(article, "title")
    IN  IF \E g \in 1..Len(groups) : groups[g].key = raw
        THEN [g \in 1..Len(groups) |->
                IF groups[g].key = raw
                THEN [key |-> raw, members |-> Append(groups[g].members, article)]
                ELSE groups[g]]
        ELSE Append(groups, [key |-> raw, members |-> <<article>>])

\* title_groups[normalized].insert(0, article)
AddToGroupFront(groups, key, article) ==
    IF \E g \in 1..Len(groups) : groups[g].key = key
    THEN [g \in 1..Len(groups) |->
            IF groups[g].key = key
            THEN [key |-> key, members |-> <<article>> \o groups[g].members]
            ELSE groups[g]]
    ELSE Append(groups, [key |-> key, members |-> <<article>>])

\* title_groups[normalized].append(article); a dict keeps its keys in the
\* order of their first insertion
AddToGroup(groups, key, article) ==
    IF \E g \in 1..Len(groups) : groups[g].key = key
    THEN [g \in 1..Len(groups) |->
            IF groups[g].key = key
            THEN [key |-> key, members |-> Append(groups[g].members, article)]
            ELSE groups[g]]
    ELSE Append(groups, [key |-> key, members |-> <<article>>])

\* the loop without `if normalized:`
RECURSIVE GroupFromAll(_, _, _)
GroupFromAll(arts, k, groups) ==
    IF k > Len(arts) THEN groups
    ELSE GroupFromAll(arts, k + 1,
             AddToGroup(groups, normalize_text(Get(arts[k], "title")), arts[k]))

\* the loop over self.articles, from articles[k] on
RECURSIVE GroupFrom(_, _, _)
GroupFrom(arts, k, groups) ==
    IF k > Len(arts) THEN groups
    ELSE LET normalized == normalize_text(Get(arts[k], "title"))
         IN  IF normalized # <<>>
             THEN GroupFrom(arts, k + 1, AddToGroup(groups, normalized, arts[k]))
             ELSE GroupFrom(arts, k + 1, groups)

\* if len(articles) >= 2
KeepGroupOver2(members) == Len(members) > 2

KeepGroupAny(members) == Len(members) >= 1

KeepGroup(members) == Len(members) >= 2

\* [articles for articles in title_groups.values() if len(articles) >= 2]
RECURSIVE GroupsKept(_, _)
GroupsKept(groups, g) ==
    IF g > Len(groups) THEN <<>>
    ELSE IF KeepGroup(groups[g].members)
         THEN <<groups[g].members>> \o GroupsKept(groups, g + 1)
         ELSE GroupsKept(groups, g + 1)

\* x put before its equals: what a sort that is not stable may do
RECURSIVE InsertByLenBeforeEquals(_, _)
InsertByLenBeforeEquals(sorted, x) ==
    IF sorted = <<>> THEN <<x>>
    ELSE IF Len(Head(sorted)) > Len(x)
         THEN <<Head(sorted)>> \o InsertByLenBeforeEquals(Tail(sorted), x)
         ELSE <<x>> \o sorted

\* x put into a list sorted by descending length, after its equals
RECURSIVE InsertByLen(_, _)
InsertByLen(sorted, x) ==
    IF sorted = <<>> THEN <<x>>
    ELSE IF Len(Head(sorted)) >= Len(x)
         THEN <<Head(sorted)>> \o InsertByLen(Tail(sorted), x)
         ELSE <<x>> \o sorted

\* clusters.sort(key=len, reverse=True): stable, equal sizes keep their order
RECURSIVE SortByLenDesc(_, _, _)
SortByLenDesc(list, k, sorted) ==
    IF k > Len(list) THEN sorted
    ELSE SortByLenDesc(list, k + 1, InsertByLen(sorted, list[k]))

cluster_by_exact_match(arts) ==
    SortByLenDesc(GroupsKept(GroupFrom(arts, 1, <<>>), 1), 1, <<>>)

\* ------------------------------------------------------------------------
\* generate_report
\* ------------------------------------------------------------------------
ZeroDivisionError == <<"ZeroDivisionError">>

\* self.input_dir
input_dir == <<"o","u","t">>

DigitChars == <<"0","1","2","3","4","5","6","7","8","9">>

\* str(k) for an integer k >= 0
RECURSIVE IntText(_)
IntText(k) ==
    IF k < 10 THEN <<DigitChars[k + 1]>>
    ELSE IntText(k \div 10) \o <<DigitChars[(k % 10) + 1]>>

\* decimals of the format specification .2f
RateDigits == 2

\* f"{x:.2f}" for x >= 0: x rounded to hundredths, the integer part, a
\* point and two digits
Format2f(x) ==
    LET hundredths == RoundTo(x, RateDigits)
        k == (hundredths[1] * Pow10(RateDigits)) \div hundredths[2]
    IN  IntText(k \div 100) \o <<".">>
            \o <<DigitChars[((k \div 10) % 10) + 1], DigitChars[(k % 10) + 1]>>

\* a / b * 100; a division by zero raises
Percent(a, b) == IF b = 0 THEN ZeroDivisionError ELSE Quotient(a * 100, b)

\* f"{x:.2f}%" of a rate; an exception goes through
RateText(x) == IF x = ZeroDivisionError THEN x ELSE Format2f(x) \o <<"%">>

\* sum(1 for cluster in self.clusters): the clusters counted, not their
\* articles
RECURSIVE SumSizesCountingClusters(_, _)
SumSizesCountingClusters(clus, c) ==
    IF c > Len(clus) THEN 0 ELSE 1 + SumSizesCountingClusters(clus, c + 1)

\* sum(len(cluster) for cluster in self.clusters)
RECURSIVE SumSizes(_, _)
SumSizes(clus, c) ==
    IF c > Len(clus) THEN 0 ELSE Len(clus[c]) + SumSizes(clus, c + 1)

\* total_articles - articles_in_clusters
UniqueArticlesNoClusters(total_articles, articles_in_clusters, num_clusters) ==
    total_articles - articles_in_clusters

\* total_articles - articles_in_clusters + num_clusters
UniqueArticles(total_articles, articles_in_clusters, num_clusters) ==
    total_articles - articles_in_clusters + num_clusters

\* articles_in_clusters / total_articles * 100, whatever total_articles is
DuplicationRateUnguarded(articles_in_clusters, total_articles) ==
    RateText(Percent(articles_in_clusters, total_articles))

\* f"{duplication_rate:.2f}%", duplication_rate being
\* (articles_in_clusters / total_articles * 100) if total_articles > 0 else 0
DuplicationRate(articles_in_clusters, total_articles) ==
    IF total_articles > 0
    THEN RateText(Percent(articles_in_clusters, total_articles))
    ELSE RateText(Zero)

\* f"{(unique_articles / total_articles * 100):.2f}%" if total_articles > 0
\* else "0%"
UniquenessRate(unique_articles, total_articles) ==
    IF total_articles > 0
    THEN RateText(Percent(unique_articles, total_articles))
    ELSE <<"0","%">>

\* generate_report with the time of the call counted into
\* total_articles_analyzed
generate_report_counting_clock(arts, dups, clus, threshold, now) ==
    LET total_articles == Len(arts)
        articles_in_clusters == SumSizes(clus, 1)
        unique_articles ==
            UniqueArticles(total_articles, articles_in_clusters, Len(clus))
        duplication_rate == DuplicationRate(articles_in_clusters, total_articles)
        uniqueness_rate == UniquenessRate(unique_articles, total_articles)
    IN  IF duplication_rate = ZeroDivisionError
           \/ uniqueness_rate = ZeroDivisionError
        THEN [raised |-> "ZeroDivisionError", value |-> <<>>]
        ELSE [raised |-> "",
              value |->
                [generated_at |-> now,
                 input_directory |-> input_dir,
                 similarity_threshold |-> threshold,
                 total_articles_analyzed |-> total_articles + now,
                 exact_match_clusters |->
                    [num_clusters |-> Len(clus),
                     total_articles_in_clusters |-> articles_in_clusters,
                     duplication_rate |-> duplication_rate,
                     largest_cluster_size |->
                        IF clus # <<>> THEN Len(clus[1]) ELSE 0],
                 similar_pairs |->
                    [num_pairs |-> Len(dups),
                     threshold |-> threshold],
                 uniqueness_analysis |->
                    [truly_unique_articles |-> unique_articles,
                     uniqueness_rate |-> uniqueness_rate]]]

\* The report dictionary, or the exception that ends the call. now is what
\* datetime.now() reads, kept as the clock's tick.
generate_report(arts, dups, clus, threshold, now) ==
    LET total_articles == Len(arts)
        num_similar_pairs == Len(dups)
        num_clusters == Len(clus)
        articles_in_clusters == SumSizes(clus, 1)
        unique_articles ==
            UniqueArticles(total_articles, articles_in_clusters, num_clusters)
        duplication_rate == DuplicationRate(articles_in_clusters, total_articles)
        uniqueness_rate == UniquenessRate(unique_articles, total_articles)
    IN  IF duplication_rate = ZeroDivisionError
           \/ uniqueness_rate = ZeroDivisionError
        THEN [raised |-> "ZeroDivisionError", value |-> <<>>]
        ELSE [raised |-> "",
              value |->
                [generated_at |-> now,
                 input_directory |-> input_dir,
                 similarity_threshold |-> threshold,
                 total_articles_analyzed |-> total_articles,
                 exact_match_clusters |->
                    [num_clusters |-> num_clusters,
                     total_articles_in_clusters |-> articles_in_clusters,
                     duplication_rate |-> duplication_rate,
                     largest_cluster_size |->
                        IF clus # <<>> THEN Len(clus[1]) ELSE 0],
                 similar_pairs |->
                    [num_pairs |-> num_similar_pairs,
                     threshold |-> threshold],
                 uniqueness_analysis |->
                    [truly_unique_articles |-> unique_articles,
                     uniqueness_rate |-> uniqueness_rate]]]

\* ------------------------------------------------------------------------
\* save_results
\* ------------------------------------------------------------------------
\* clusters written to duplicate_clusters.json: self.clusters[:100]
TopClusters == 100

Min(a, b) == IF a <= b THEN a ELSE b

\* the entry of duplicate_clusters.json for self.clusters[idx] (idx from 0)
ClusterData(clus, idx) ==
    [cluster_id |-> idx + 1,
     size |-> Len(clus[idx + 1]),
     normalized_title |-> normalize_text(Get(clus[idx + 1][1], "title")),
     articles |-> [k \in 1..Len(clus[idx + 1]) |-> Entry(clus[idx + 1][k])]]

\* clusters_data
ClustersData(clus) ==
    [c \in 1..Min(TopClusters, Len(clus)) |-> ClusterData(clus, c - 1)]

\* the rows of similarity_summary.csv
SummaryRows(report, threshold) ==
    << [metric |-> "Metric", value |-> "Value"],
       [metric |-> "Total Articles", value |-> report.total_articles_analyzed],
       [metric |-> "Exact Match Clusters",
        value |-> report.exact_match_clusters.num_clusters],
       [metric |-> "Articles in Clusters",
        value |-> report.exact_match_clusters.total_articles_in_clusters],
       [metric |-> "Duplication Rate",
        value |-> report.exact_match_clusters.duplication_rate],
       [metric |-> [format |-> "Similar Pairs (>={})", arg |-> threshold],
        value |-> report.similar_pairs.num_pairs],
       [metric |-> "Truly Unique Articles",
        value |-> report.uniqueness_analysis.truly_unique_articles],
       [metric |-> "Uniqueness Rate",
        value |-> report.uniqueness_analysis.uniqueness_rate] >>

\* The files of input_dir after save_results has written report (what its
\* generate_report call returned): a file the code does not open keeps what
\* it held. json.dump writes None as null and a str as a string.
save_results(fs, report, dups, clus, threshold) ==
    [report  |-> [exists |-> TRUE, content |-> report],
     pairs   |-> IF dups # <<>>
                 THEN [exists |-> TRUE, content |-> dups]
                 ELSE fs.pairs,
     clusters |-> IF clus # <<>>
                  THEN [exists |-> TRUE, content |-> ClustersData(clus)]
                  ELSE fs.clusters,
     summary |-> [exists |-> TRUE, content |-> SummaryRows(report, threshold)]]

\* ------------------------------------------------------------------------
\* State
\* ------------------------------------------------------------------------
VARIABLES
    similarity_threshold,  \* self.similarity_threshold
    articles,              \* self.articles
    duplicates,            \* self.duplicates
    clusters,              \* self.clusters
    csv_file,              \* articles.csv of input_dir: [exists, rows]
    last_call,             \* the method of the analyzer that returned last
    returned,              \* what it returned
    fsp,                   \* find_similar_pairs' last run: ngram_size, compared,
                           \* and the history log, idx of CompareLoop
    stage,                 \* position of a direct call of one of the functions
    arg_text,              \* its text argument
    arg_n,                 \* its n argument
    arg_set1,              \* its set1 argument
    arg_set2,              \* its set2 argument
    ret,                   \* what it returned
    ret2,                  \* what the second call returned
    files,                 \* the output files of input_dir: [exists, content]
    pc,                    \* position inside analyze()
    raised,                \* the exception that ended the last call, "" if none
    clock,                 \* what datetime.now() read last
    entry,                 \* history: the analyzer and input_dir as the
                           \* running (or last) analyze() found them
    phases,                \* history: the steps that analyze() has taken
    replaced,              \* history: how often articles.csv was replaced
    auditor_articles,      \* Q2BStudioAuditor.articles, in insertion order
    stored                 \* history: the articles stored into it, in order

vars == <<similarity_threshold, articles, duplicates, clusters, csv_file,
          last_call, returned, fsp, stage, arg_text, arg_n, arg_set1, arg_set2,
          ret, ret2, files, pc, raised, clock, entry, phases, replaced,
          auditor_articles, stored>>

analyzer_vars == <<similarity_threshold, articles, duplicates, clusters,
                   csv_file, last_call, returned, fsp>>

call_vars == <<stage, arg_text, arg_n, arg_set1, arg_set2, ret, ret2>>

run_vars == <<files, pc, raised, clock, entry, phases, replaced>>

auditor_vars == <<auditor_articles, stored>>

\* ------------------------------------------------------------------------
\* Inputs
\* ------------------------------------------------------------------------
\* the pieces input texts are put together from
Frags == { <<"h","t","t","p",":","/","/">>,
           <<"H","T","T","P","S",":","/","/">>,
           <<":","/","/">>,
           <<"a">>,
           <<" ">>,
           <<"\t">>,
           <<"!">> }

RECURSIVE Concats(_)
Concats(k) ==
    IF k = 0 THEN {<<>>}
    ELSE Concats(k - 1) \cup {p \o f : p \in Concats(k - 1), f \in Frags}

Hello == <<"H","e","l","l","o",","," ","W","o","r","l","d","!"," "," ","1","2","3">>

TextInputs ==
    Concats(MaxFrags)
        \cup {NoneValue, Hello,
              <<"U+0130","s","t","U+00A0","U+00C9","9">>,
              <<"f","t","p",":","/","/","x",".","y","/","z"," ","o","k">>}

NgramSizes == 1..MaxN

GramPool == << <<>>, <<"a","b">>, <<"b","c">>, <<"c","d">>, <<"d","e">>, <<"e","f">> >>

GramSets == SUBSET {GramPool[k] : k \in 1..MaxGrams}

\* the thresholds the analyzer is constructed with; 0.85 is the default
Thresholds == { <<0, 1>>, <<33333, 100000>>, <<85, 100>> }

\* rows as csv.DictReader returns them; a row shorter than the header has
\* None for the fields it lacks
ArticlePool ==
    { [url |-> <<"u","1">>, title |-> <<"c","d">>, date_parsed |-> <<"d","1">>],
      [url |-> <<"u","2">>, title |-> <<" ","C","d","!">>, date_parsed |-> <<"d","2">>],
      [url |-> <<"u","1">>, title |-> <<"a","b","c","d">>, date_parsed |-> <<"d","1">>],
      [url |-> <<"u","3">>, title |-> <<"!">>, date_parsed |-> NoneValue] }

Corpora == UNION {[1..m -> ArticlePool] : m \in 0..MaxArticles}

\* the corpus of four titles of the end-to-end example
ExampleCorpus ==
    << [url |-> <<"u","1">>, date_parsed |-> <<"d","1">>,
        title |-> <<"F","o","o"," ","B","a","r">>],
       [url |-> <<"u","2">>, date_parsed |-> <<"d","2">>,
        title |-> <<"f","o","o"," "," ","b","a","r","!">>],
       [url |-> <<"u","3">>, date_parsed |-> <<"d","3">>,
        title |-> <<"B","a","z"," ","Q","u","x">>],
       [url |-> <<"u","4">>, date_parsed |-> <<"d","4">>,
        title |-> <<"C","o","m","p","l","e","t","e","l","y"," ","D","i","f","f","e","r","e","n","t">>] >>

NoRun == [ngram_size |-> 0, compared |-> 0, log |-> <<>>, idx |-> <<>>]

NoFile == [exists |-> FALSE, content |-> <<>>]

\* input_dir without any output file
NoFiles == [report |-> NoFile, pairs |-> NoFile, clusters |-> NoFile,
            summary |-> NoFile]

NoEntry == [csv_exists |-> FALSE, articles |-> <<>>, clusters |-> <<>>,
            duplicates |-> <<>>, files |-> NoFiles]

\* no analyze() under way, an auditor that has stored nothing
PipelineIdle ==
    /\ files = NoFiles
    /\ pc = "idle"
    /\ raised = ""
    /\ clock = 0
    /\ entry = NoEntry
    /\ phases = <<>>
    /\ replaced = 0
    /\ auditor_articles = <<>>
    /\ stored = <<>>

\* ------------------------------------------------------------------------
\* Direct calls of normalize_text and generate_ngrams
\* ------------------------------------------------------------------------
AnalyzerIdle ==
    /\ similarity_threshold = <<85, 100>>
    /\ articles = <<>>
    /\ duplicates = <<>>
    /\ clusters = <<>>
    /\ csv_file = [exists |-> FALSE, rows |-> <<>>]
    /\ last_call = "__init__"
    /\ returned = <<>>
    /\ fsp = NoRun
    /\ PipelineIdle

InitText ==
    /\ AnalyzerIdle
    /\ stage = "args"
    /\ arg_text \in TextInputs
    /\ arg_n = 0
    /\ arg_set1 = {}
    /\ arg_set2 = {}
    /\ ret = <<>>
    /\ ret2 = <<>>

\* ret = normalize_text(arg_text)
NormalizeText ==
    /\ stage = "args"
    /\ ret' = normalize_text(arg_text)
    /\ stage' = "normalized"
    /\ UNCHANGED <<arg_text, arg_n, arg_set1, arg_set2, ret2>>
    /\ UNCHANGED <<analyzer_vars, run_vars, auditor_vars>>

\* ret2 = normalize_text(ret)
NormalizeAgain ==
    /\ stage = "normalized"
    /\ ret # AttributeError
    /\ ret2' = normalize_text(ret)
    /\ stage' = "renormalized"
    /\ UNCHANGED <<arg_text, arg_n, arg_set1, arg_set2, ret>>
    /\ UNCHANGED <<analyzer_vars, run_vars, auditor_vars>>

\* ret = generate_ngrams(arg_text, n)
GenerateNgrams ==
    /\ stage = "args"
    /\ \E n \in NgramSizes :
        /\ arg_n' = n
        /\ ret' = generate_ngrams(arg_text, n)
    /\ stage' = "ngrams"
    /\ UNCHANGED <<arg_text, arg_set1, arg_set2, ret2>>
    /\ UNCHANGED <<analyzer_vars, run_vars, auditor_vars>>

NextText == NormalizeText \/ NormalizeAgain \/ GenerateNgrams

SpecText == InitText /\ [][NextText]_vars

\* ------------------------------------------------------------------------
\* Direct calls of calculate_jaccard_similarity
\* ------------------------------------------------------------------------
InitJaccard ==
    /\ AnalyzerIdle
    /\ stage = "args"
    /\ arg_text = <<>>
    /\ arg_n = 0
    /\ arg_set1 \in GramSets
    /\ arg_set2 \in GramSets
    /\ ret = <<>>
    /\ ret2 = <<>>

\* ret = sim(set1, set2), ret2 = sim(set2, set1)
CalculateJaccard ==
    /\ stage = "args"
    /\ ret' = calculate_jaccard_similarity(arg_set1, arg_set2)
    /\ ret2' = calculate_jaccard_similarity(arg_set2, arg_set1)
    /\ stage' = "jaccard"
    /\ UNCHANGED <<arg_text, arg_n, arg_set1, arg_set2>>
    /\ UNCHANGED <<analyzer_vars, run_vars, auditor_vars>>

NextJaccard == CalculateJaccard

SpecJaccard == InitJaccard /\ [][NextJaccard]_vars

\* ------------------------------------------------------------------------
\* The analyzer: an instance and the calls of its methods
\* ------------------------------------------------------------------------
\* SimilarityAnalyzer(input_dir, similarity_threshold)
Init ==
    /\ similarity_threshold \in Thresholds
    /\ articles = <<>>
    /\ duplicates = <<>>
    /\ clusters = <<>>
    /\ csv_file \in {[exists |-> FALSE, rows |-> <<>>]}
                        \cup {[exists |-> TRUE, rows |-> c] : c \in Corpora \cup {ExampleCorpus}}
    /\ last_call = "__init__"
    /\ returned = <<>>
    /\ fsp = NoRun
    /\ stage = "none"
    /\ arg_text = <<>>
    /\ arg_n = 0
    /\ arg_set1 = {}
    /\ arg_set2 = {}
    /\ ret = <<>>
    /\ ret2 = <<>>
    /\ PipelineIdle

LoadArticles ==
    /\ IF csv_file.exists
       THEN /\ articles' = csv_file.rows
            /\ returned' = TRUE
       ELSE /\ articles' = articles
            /\ returned' = FALSE
    /\ last_call' = "load_articles"
    /\ UNCHANGED <<similarity_threshold, duplicates, clusters, csv_file, fsp>>
    /\ UNCHANGED <<call_vars, run_vars, auditor_vars>>

\* cluster_by_exact_match that empties self.duplicates
ClusterByExactMatchClearingPairs ==
    /\ clusters' = cluster_by_exact_match(articles)
    /\ returned' = clusters'
    /\ last_call' = "cluster_by_exact_match"
    /\ duplicates' = <<>>
    /\ UNCHANGED <<similarity_threshold, articles, csv_file, fsp>>
    /\ UNCHANGED <<call_vars, run_vars, auditor_vars>>

ClusterByExactMatch ==
    /\ clusters' = cluster_by_exact_match(articles)
    /\ returned' = clusters'
    /\ last_call' = "cluster_by_exact_match"
    /\ UNCHANGED <<similarity_threshold, articles, duplicates, csv_file, fsp>>
    /\ UNCHANGED <<call_vars, run_vars, auditor_vars>>

FindSimilarPairs ==
    /\ \E n \in NgramSizes :
        \E run \in {find_similar_pairs(articles, similarity_threshold, n)} :
            /\ duplicates' = run.similar_pairs
            /\ returned' = run.similar_pairs
            /\ fsp' = [ngram_size |-> n, compared |-> run.compared,
                       log |-> run.log, idx |-> run.idx]
    /\ last_call' = "find_similar_pairs"
    /\ UNCHANGED <<similarity_threshold, articles, clusters, csv_file>>
    /\ UNCHANGED <<call_vars, run_vars, auditor_vars>>

Next == LoadArticles \/ ClusterByExactMatch \/ FindSimilarPairs

Spec == Init /\ [][Next]_vars

\* ------------------------------------------------------------------------
\* The analyzer, loading and clustering only, on longer files
\* ------------------------------------------------------------------------
ClusterCorpora == UNION {[1..m -> ArticlePool] : m \in 0..MaxClusterArticles}

InitCluster ==
    /\ similarity_threshold = <<85, 100>>
    /\ articles = <<>>
    /\ duplicates = <<>>
    /\ clusters = <<>>
    /\ csv_file \in {[exists |-> TRUE, rows |-> c] : c \in ClusterCorpora}
    /\ last_call = "__init__"
    /\ returned = <<>>
    /\ fsp = NoRun
    /\ stage = "none"
    /\ arg_text = <<>>
    /\ arg_n = 0
    /\ arg_set1 = {}
    /\ arg_set2 = {}
    /\ ret = <<>>
    /\ ret2 = <<>>
    /\ PipelineIdle

NextCluster == LoadArticles \/ ClusterByExactMatch

SpecCluster == InitCluster /\ [][NextCluster]_vars

\* ------------------------------------------------------------------------
\* analyze(): runs of the pipeline on one analyzer and one input_dir
\* ------------------------------------------------------------------------
RunPool ==
    { [url |-> <<"u","1">>, title |-> <<"c","d">>, date_parsed |-> <<"d","1">>],
      [url |-> <<"u","2">>, title |-> <<"a","b","c","d">>, date_parsed |-> <<"d","2">>] }

RunCorpora == UNION {[1..m -> RunPool] : m \in 0..MaxRunArticles}

\* articles.csv: missing, or holding zero or more rows
RunCsvFiles ==
    {[exists |-> FALSE, rows |-> <<>>]}
        \cup {[exists |-> TRUE, rows |-> c] : c \in RunCorpora}

\* what datetime.now() may read after it read t
Later(t) == {u \in t..(t + 1) : u <= MaxClock}

InitRun ==
    /\ similarity_threshold = <<85, 100>>
    /\ articles = <<>>
    /\ duplicates = <<>>
    /\ clusters = <<>>
    /\ csv_file \in RunCsvFiles
    /\ last_call = "__init__"
    /\ returned = <<>>
    /\ fsp = NoRun
    /\ stage = "none"
    /\ arg_text = <<>>
    /\ arg_n = 0
    /\ arg_set1 = {}
    /\ arg_set2 = {}
    /\ ret = <<>>
    /\ ret2 = <<>>
    /\ PipelineIdle

\* a missing articles.csv read as a file without rows
load_articles_or_empty(csv, arts) == [ok |-> TRUE, articles |-> csv.rows]

\* load_articles: what it returns, and self.articles after it
load_articles(csv, arts) ==
    IF csv.exists
    THEN [ok |-> TRUE, articles |-> csv.rows]
    ELSE [ok |-> FALSE, articles |-> arts]

\* analyze() is called: `if not self.load_articles(): return {}`
AnalyzeLoad ==
    /\ pc = "idle"
    /\ entry' = [csv_exists |-> csv_file.exists, articles |-> articles,
                 clusters |-> clusters, duplicates |-> duplicates,
                 files |-> files]
    /\ phases' = <<"load">>
    /\ raised' = ""
    /\ \E loaded \in {load_articles(csv_file, articles)} :
        /\ articles' = loaded.articles
        /\ IF loaded.ok
           THEN /\ returned' = TRUE
                /\ last_call' = "load_articles"
                /\ pc' = "loaded"
           ELSE /\ returned' = <<>>
                /\ last_call' = "analyze"
                /\ pc' = "idle"
    /\ UNCHANGED <<similarity_threshold, duplicates, clusters, csv_file, fsp>>
    /\ UNCHANGED <<files, clock, replaced>>
    /\ UNCHANGED <<call_vars, auditor_vars>>

\* self.cluster_by_exact_match()
AnalyzeCluster ==
    /\ pc = "loaded"
    /\ clusters' = cluster_by_exact_match(articles)
    /\ returned' = clusters'
    /\ last_call' = "cluster_by_exact_match"
    /\ phases' = Append(phases, "cluster")
    /\ pc' = "clustered"
    /\ UNCHANGED <<similarity_threshold, articles, duplicates, csv_file, fsp>>
    /\ UNCHANGED <<files, raised, clock, entry, replaced>>
    /\ UNCHANGED <<call_vars, auditor_vars>>

\* if len(self.articles) <= max_articles_for_pairwise
MatchesPairwise(n) == n <= max_articles_for_pairwise

\* self.find_similar_pairs(ngram_size=3)
AnalyzeMatch ==
    /\ pc = "clustered"
    /\ MatchesPairwise(Len(articles))
    /\ \E run \in {find_similar_pairs(articles, similarity_threshold, 3)} :
            /\ duplicates' = run.similar_pairs
            /\ returned' = run.similar_pairs
            /\ fsp' = [ngram_size |-> 3, compared |-> run.compared,
                       log |-> run.log, idx |-> run.idx]
    /\ last_call' = "find_similar_pairs"
    /\ phases' = Append(phases, "match")
    /\ pc' = "matched"
    /\ UNCHANGED <<similarity_threshold, articles, clusters, csv_file>>
    /\ UNCHANGED <<files, raised, clock, entry, replaced>>
    /\ UNCHANGED <<call_vars, auditor_vars>>

\* the else branch: the skip is printed, nothing is assigned
AnalyzeSkip ==
    /\ pc = "clustered"
    /\ ~MatchesPairwise(Len(articles))
    /\ phases' = Append(phases, "skip")
    /\ pc' = "matched"
    /\ UNCHANGED analyzer_vars
    /\ UNCHANGED <<files, raised, clock, entry, replaced>>
    /\ UNCHANGED <<call_vars, auditor_vars>>

\* self.save_results(), called at the given position of analyze(); an
\* exception of its generate_report call ends analyze() before a file is
\* opened
SaveAt(position) ==
    /\ pc = position
    /\ \E now \in Later(clock) :
        \E report \in {generate_report(articles, duplicates, clusters,
                                       similarity_threshold, now)} :
            /\ clock' = now
            /\ raised' = report.raised
            /\ IF report.raised = ""
               THEN /\ files' = save_results(files, report.value, duplicates,
                                             clusters, similarity_threshold)
                    /\ returned' = NoneValue
                    /\ last_call' = "save_results"
                    /\ phases' = Append(phases, "save")
                    /\ pc' = "saved"
               ELSE /\ files' = files
                    /\ returned' = <<>>
                    /\ last_call' = "analyze"
                    /\ phases' = phases
                    /\ pc' = "idle"
    /\ UNCHANGED <<similarity_threshold, articles, duplicates, clusters,
                   csv_file, fsp>>
    /\ UNCHANGED <<entry, replaced>>
    /\ UNCHANGED <<call_vars, auditor_vars>>

\* save_results called once the clusters are there, whether or not the
\* pairs have been matched
AnalyzeSaveBeforeMatch == SaveAt("clustered")

\* self.save_results(): after the matching, or the skip of it
AnalyzeSave == SaveAt("matched")

\* return self.generate_report()
AnalyzeReturn ==
    /\ pc = "saved"
    /\ \E now \in Later(clock) :
        \E report \in {generate_report(articles, duplicates, clusters,
                                       similarity_threshold, now)} :
            /\ clock' = now
            /\ raised' = report.raised
            /\ returned' = report.value
    /\ last_call' = "analyze"
    /\ phases' = Append(phases, "report")
    /\ pc' = "idle"
    /\ UNCHANGED <<similarity_threshold, articles, duplicates, clusters,
                   csv_file, fsp>>
    /\ UNCHANGED <<files, entry, replaced>>
    /\ UNCHANGED <<call_vars, auditor_vars>>

\* after a run articles.csv is written anew, or removed
ReplaceCsv ==
    /\ pc = "idle"
    /\ last_call = "analyze"
    /\ replaced < MaxReplace
    /\ csv_file' \in RunCsvFiles \ {csv_file}
    /\ replaced' = replaced + 1
    /\ UNCHANGED <<similarity_threshold, articles, duplicates, clusters,
                   last_call, returned, fsp>>
    /\ UNCHANGED <<files, pc, raised, clock, entry, phases>>
    /\ UNCHANGED <<call_vars, auditor_vars>>

NextRun ==
    \/ AnalyzeLoad
    \/ AnalyzeCluster
    \/ AnalyzeMatch
    \/ AnalyzeSkip
    \/ AnalyzeSave
    \/ AnalyzeReturn
    \/ ReplaceCsv

SpecRun == InitRun /\ [][NextRun]_vars

\* ------------------------------------------------------------------------
\* Q2BStudioAuditor.articles, the articles.csv it writes, and the analyzer
\* loading that file
\* ------------------------------------------------------------------------
SchemeChars == {"+", "-", "."}

\* position of the first ":" of url at or after k, 0 when there is none
RECURSIVE ColonAt(_, _)
ColonAt(url, k) ==
    IF k > Len(url) THEN 0
    ELSE IF url[k] = ":" THEN k
    ELSE ColonAt(url, k + 1)

\* urlparse(url).scheme: the characters before the first ":", if they are
\* a letter followed by letters, digits, "+", "-" or "."
UrlScheme(url) ==
    LET colon == ColonAt(url, 1)
    IN  IF /\ colon > 1
           /\ \E k \in 1..26 : url[1] \in {LowerLetters[k], UpperLetters[k]}
           /\ \A i \in 1..(colon - 1) :
                \/ \E k \in 1..26 : url[i] \in {LowerLetters[k], UpperLetters[k]}
                \/ url[i] \in Digits
                \/ url[i] \in SchemeChars
        THEN Lower(SubSeq(url, 1, colon - 1))
        ELSE <<>>

\* end (exclusive) of the netloc that starts at k: the next "/", "?" or "#"
RECURSIVE NetlocEnd(_, _)
NetlocEnd(url, k) ==
    IF k > Len(url) \/ url[k] \in {"/", "?", "#"} THEN k
    ELSE NetlocEnd(url, k + 1)

\* urlparse(url).netloc: what follows "//" after the scheme
UrlNetloc(url) ==
    LET start == IF UrlScheme(url) = <<>> THEN 1 ELSE ColonAt(url, 1) + 1
    IN  IF StartsWithAt(url, start, <<"/", "/">>)
        THEN SubSeq(url, start + 2, NetlocEnd(url, start + 2) - 1)
        ELSE <<>>

\* needle in hay
Contains(hay, needle) ==
    \E k \in 1..(Len(hay) - Len(needle) + 1) : StartsWithAt(hay, k, needle)

Q2bDomain == <<"q","2","b","s","t","u","d","i","o",".","c","o","m">>

validate_url(url) ==
    /\ ~Falsy(url)
    /\ UrlScheme(url) # <<>>
    /\ UrlNetloc(url) # <<>>
    /\ Contains(UrlNetloc(url), Q2bDomain)

RequiredFields == {"url", "title", "date_raw", "date_parsed", "page_num"}

\* page_num is an int in every article the model offers
validate_article_data(article_data) ==
    /\ RequiredFields \subseteq DOMAIN article_data
    /\ validate_url(article_data.url)
    /\ ~Falsy(article_data.title)
    /\ article_data.title # <<"N","/","A">>
    /\ article_data.page_num >= 1

\* a list in place of the dict: every article is added
DictSetAppend(dict, key, value) == Append(dict, [key |-> key, value |-> value])

\* dict[key] = value: a key the dict has keeps its place and gets the
\* value, a new key goes to the end
DictSet(dict, key, value) ==
    IF \E k \in 1..Len(dict) : dict[k].key = key
    THEN [k \in 1..Len(dict) |->
            IF dict[k].key = key THEN [key |-> key, value |-> value]
            ELSE dict[k]]
    ELSE Append(dict, [key |-> key, value |-> value])

\* The row csv.DictWriter writes for an article and csv.DictReader reads
\* back: the fieldnames' values as text, "" for archive_url when the article
\* has none.
CsvRow(article) ==
    [url |-> article.url,
     title |-> article.title,
     date_raw |-> article.date_raw,
     date_parsed |-> article.date_parsed,
     page_num |-> IntText(article.page_num),
     archive_url |-> Get(article, "archive_url")]

Q2bUrlA == <<"h","t","t","p","s",":","/","/","q","2","b","s","t","u","d","i","o",".","c","o","m","/","a">>

Q2bUrlB == <<"h","t","t","p",":","/","/","w",".","q","2","b","s","t","u","d","i","o",".","c","o","m","/","b">>

OtherUrl == <<"h","t","t","p","s",":","/","/","x",".","c","o","m","/","a">>

NoSchemeUrl == <<"q","2","b","s","t","u","d","i","o",".","c","o","m","/","a">>

UnknownDate == <<"U","N","K","N","O","W","N","_","D","A","T","E">>

ArticleData(url, title, page_num) ==
    [url |-> url, title |-> title, date_raw |-> <<"N","/","A">>,
     date_parsed |-> UnknownDate, page_num |-> page_num]

\* the article_data that pages and checkpoints hold: some share a url, some
\* validate_article_data turns down
ListedPool ==
    { ArticleData(Q2bUrlA, <<"c","d">>, 1),
      ArticleData(Q2bUrlA, <<"a","b","c","d">>, 2),
      ArticleData(Q2bUrlB, <<"c","d">>, 1),
      ArticleData(Q2bUrlB, <<"N","/","A">>, 2),
      ArticleData(OtherUrl, <<"c","d">>, 1),
      ArticleData(NoSchemeUrl, <<"c","d">>, 1),
      ArticleData(Q2bUrlA, <<"x">>, 0) }

\* what scrape_page puts on articles_on_page: the article_data that pass
\* validate_article_data
ScrapedArticles == {article \in ListedPool : validate_article_data(article)}

RawCsvFiles ==
    {[exists |-> FALSE, rows |-> <<>>]}
        \cup {[exists |-> TRUE, rows |-> c] :
                c \in UNION {[1..m -> ArticlePool] : m \in 0..MaxRawRows}}

InitCorpus ==
    /\ similarity_threshold = <<85, 100>>
    /\ articles = <<>>
    /\ duplicates = <<>>
    /\ clusters = <<>>
    /\ csv_file \in RawCsvFiles
    /\ last_call = "__init__"
    /\ returned = <<>>
    /\ fsp = NoRun
    /\ stage = "none"
    /\ arg_text = <<>>
    /\ arg_n = 0
    /\ arg_set1 = {}
    /\ arg_set2 = {}
    /\ ret = <<>>
    /\ ret2 = <<>>
    /\ PipelineIdle

\* scrape_all_pages, one turn of `for article in articles_on_page`:
\* self.articles[article["url"]] = article. A page is any list of scraped
\* articles, so the turns of one page and of the next are not told apart.
StoreScraped ==
    /\ Len(stored) < MaxStored
    /\ \E article \in ScrapedArticles :
        /\ auditor_articles' = DictSet(auditor_articles, article.url, article)
        /\ stored' = Append(stored, article)
    /\ UNCHANGED <<analyzer_vars, call_vars, run_vars>>

\* load_checkpoint, one turn of `for article in articles_list`: a valid
\* article is stored under its url, another one is counted and left out
StoreFromCheckpoint ==
    /\ Len(stored) < MaxStored
    /\ \E article \in ListedPool :
        IF validate_article_data(article)
        THEN /\ auditor_articles' = DictSet(auditor_articles, article.url, article)
             /\ stored' = Append(stored, article)
        ELSE UNCHANGED auditor_vars
    /\ UNCHANGED <<analyzer_vars, call_vars, run_vars>>

\* save_checkpoint: articles.csv gets a row per value of self.articles
SaveCheckpoint ==
    /\ csv_file' = [exists |-> TRUE,
                    rows |-> [k \in 1..Len(auditor_articles) |->
                                CsvRow(auditor_articles[k].value)]]
    /\ UNCHANGED <<similarity_threshold, articles, duplicates, clusters,
                   last_call, returned, fsp>>
    /\ UNCHANGED <<call_vars, run_vars, auditor_vars>>

NextCorpus == StoreScraped \/ StoreFromCheckpoint \/ SaveCheckpoint \/ LoadArticles

SpecCorpus == InitCorpus /\ [][NextCorpus]_vars

\* ------------------------------------------------------------------------
\* Properties of normalize_text (SpecText)
\* ------------------------------------------------------------------------
\* C1: normalize_text is idempotent: normalizing the result of normalize_text
\* again returns that result unchanged.
C1_Idempotent == stage = "renormalized" => ret2 = ret

C1_Witness ==
    /\ stage = "renormalized"
    /\ ret # <<>>
    /\ ret # arg_text
    /\ ret2 = ret

HelloNormalized == <<"h","e","l","l","o"," ","w","o","r","l","d"," ","1","2","3">>

\* C2: the output of normalize_text holds only lowercase ASCII letters,
\* digits and single spaces, does not start or end with a space and has no
\* two spaces in a row; "Hello, World!  123" gives "hello world 123".
C2_OutputShape ==
    stage = "normalized" =>
        /\ \A k \in 1..Len(ret) : IsLowerAlnum(ret[k]) \/ ret[k] = " "
        /\ ret # <<>> => ret[1] # " " /\ ret[Len(ret)] # " "
        /\ \A k \in 1..(Len(ret) - 1) : ~(ret[k] = " " /\ ret[k + 1] = " ")
        /\ arg_text = Hello => ret = HelloNormalized

C2_Witness ==
    /\ stage = "normalized"
    /\ arg_text = Hello
    /\ ret = HelloNormalized

OnlySpace(text) == \A k \in 1..Len(text) : IsSpace(text[k])

OnlyPunctuation(text) ==
    \A k \in 1..Len(text) : text[k] \in {"!", ",", ".", ":", "/", "?", ";", "-"}

\* C3: normalize_text never raises, and returns the empty string for an
\* empty input, a whitespace-only input, a punctuation-only input and None.
C3_EmptyResult ==
    stage = "normalized" =>
        /\ ret # AttributeError
        /\ (arg_text = NoneValue \/ arg_text = <<>>) => ret = <<>>
        /\ (arg_text # NoneValue /\ (OnlySpace(arg_text) \/ OnlyPunctuation(arg_text)))
               => ret = <<>>

C3_Witness ==
    /\ stage = "normalized"
    /\ arg_text = NoneValue
    /\ ret = <<>>

\* the characters of text at the positions in keep, in order
RECURSIVE TakeFrom(_, _, _)
TakeFrom(text, keep, k) ==
    IF k > Len(text) THEN <<>>
    ELSE (IF k \in keep THEN <<text[k]>> ELSE <<>>) \o TakeFrom(text, keep, k + 1)

NoSpaceIn(text, i, k) == \A m \in i..k : ~IsSpace(text[m])

\* http:// or https:// starts at i and a non-whitespace character follows it
HttpUrlStartsAt(text, i) ==
    \E lit \in { <<"h","t","t","p",":","/","/">>, <<"h","t","t","p","s",":","/","/">> } :
        /\ StartsWithAt(text, i, lit)
        /\ i + Len(lit) <= Len(text)
        /\ ~IsSpace(text[i + Len(lit)])

\* position k lies in a substring http[s]://<non-whitespace run>
InHttpUrl(text, k) ==
    \E i \in 1..k : HttpUrlStartsAt(text, i) /\ NoSpaceIn(text, i, k)

\* a run of letters starting at i is followed by :// and a non-whitespace
\* character: a substring scheme://<non-whitespace run> starts at i
SchemeUrlStartsAt(text, i) ==
    \E j \in (i + 1)..Len(text) :
        /\ \A m \in i..(j - 1) : \E c \in 1..26 : LowerLetters[c] = text[m]
        /\ StartsWithAt(text, j, <<":","/","/">>)
        /\ j + 3 <= Len(text)
        /\ ~IsSpace(text[j + 3])

\* position k lies in a substring scheme://<non-whitespace run>
InSchemeUrl(text, k) ==
    \E i \in 1..k : SchemeUrlStartsAt(text, i) /\ NoSpaceIn(text, i, k)

C5_Ngrams ==
    stage = "ngrams" =>
        LET t == normalize_text(arg_text)
        IN  IF Len(t) < arg_n
            THEN ret = {t}
            ELSE /\ ret = {SubSeq(t, i + 1, i + arg_n) : i \in 0..(Len(t) - arg_n)}
                 /\ \A g \in ret : Len(g) = arg_n
                 /\ Cardinality(ret) <= Len(t) - arg_n + 1

C5_Witness ==
    /\ stage = "ngrams"
    /\ arg_n > 1
    /\ Len(normalize_text(arg_text)) > arg_n
    /\ Cardinality(ret) > 1
    /\ Cardinality(ret) < Len(normalize_text(arg_text)) - arg_n + 1

\* ------------------------------------------------------------------------
\* Properties of calculate_jaccard_similarity (SpecJaccard)
\* ------------------------------------------------------------------------
\* C6: sim(A, B) = sim(B, A) for all sets, and sim(A, A) = 1.0 for every
\* non-empty set A.
C6_Symmetric ==
    stage = "jaccard" =>
        /\ ret = ret2
        /\ (arg_set1 = arg_set2 /\ arg_set1 # {}) => ret = One

C6_Witness ==
    /\ stage = "jaccard"
    /\ arg_set1 # arg_set2
    /\ Cardinality(arg_set1) # Cardinality(arg_set2)
    /\ Gt(ret, Zero)
    /\ ret = ret2

\* ------------------------------------------------------------------------
\* Properties of find_similar_pairs (Spec)
\* ------------------------------------------------------------------------
\* the n-gram fingerprint of the title of articles[i] (i from 0) in the
\* last run of find_similar_pairs
FingerprintOf(i) == generate_ngrams(Get(articles[i + 1], "title"), fsp.ngram_size)

\* |F_i /\ F_j| / |F_i \/ F_j| >= x, for a fraction x
RatioAtLeast(i, j, x) ==
    Cardinality(FingerprintOf(i) \cap FingerprintOf(j)) * x[2]
        >= x[1] * Cardinality(FingerprintOf(i) \cup FingerprintOf(j))

\* the pairs of duplicates are those of the index pairs of fsp.idx
PairsAreOfIdx ==
    /\ Len(duplicates) = Len(fsp.idx)
    /\ \A k \in 1..Len(duplicates) :
        /\ duplicates[k].article1 = Entry(articles[fsp.idx[k][1] + 1])
        /\ duplicates[k].article2 = Entry(articles[fsp.idx[k][2] + 1])

IndexPairs == {p \in (0..(Len(articles) - 1)) \X (0..(Len(articles) - 1)) : p[1] < p[2]}

\* C7: find_similar_pairs returns the pair of articles[i], articles[j],
\* i < j, if and only if |F_i /\ F_j| / |F_i \/ F_j| >= similarity_threshold.
C7_RetainedIffThreshold ==
    last_call = "find_similar_pairs" =>
        /\ PairsAreOfIdx
        /\ \A p \in IndexPairs :
            (\E k \in 1..Len(fsp.idx) : fsp.idx[k] = p)
                <=> RatioAtLeast(p[1], p[2], similarity_threshold)

C7_Witness ==
    /\ last_call = "find_similar_pairs"
    /\ Len(articles) = 3
    /\ Len(duplicates) = 1
    /\ fsp.idx = << <<0, 2>> >>
    /\ similarity_threshold = <<33333, 100000>>

\* |x - y| * c, as a multiple of 1 / (x[2] * y[2])
AbsDiffTimes(x, y, c) ==
    LET d == x[1] * y[2] - y[1] * x[2]
    IN  (IF d < 0 THEN -d ELSE d) * c

\* C8 (as amended): every pair emitted has a Jaccard similarity q with
\* similarity_threshold <= q <= 1, and records s, the multiple of 0.0001
\* nearest to q: 0 <= s <= 1, |s - q| <= 0.00005, and s >= the threshold
\* when the threshold is itself a multiple of 0.0001.
C8_RecordedIsRounded ==
    last_call = "find_similar_pairs" =>
        /\ PairsAreOfIdx
        /\ \A k \in 1..Len(duplicates) :
            LET s == duplicates[k].similarity
                i == fsp.idx[k][1]
                j == fsp.idx[k][2]
                q == <<Cardinality(FingerprintOf(i) \cap FingerprintOf(j)),
                       Cardinality(FingerprintOf(i) \cup FingerprintOf(j))>>
            IN  /\ q[2] > 0
                /\ Geq(q, similarity_threshold)
                /\ Geq(One, q)
                /\ 10000 % s[2] = 0
                /\ AbsDiffTimes(s, q, 20000) <= s[2] * q[2]
                /\ Geq(s, Zero)
                /\ Geq(One, s)
                /\ (10000 * similarity_threshold[1]) % similarity_threshold[2] = 0
                       => Geq(s, similarity_threshold)

C8_Witness ==
    /\ last_call = "find_similar_pairs"
    /\ \E k \in 1..Len(duplicates) :
        /\ Gt(similarity_threshold, duplicates[k].similarity)
        /\ duplicates[k].similarity = <<3333, 10000>>

\* C8 (as claimed): the similarity recorded in every emitted pair is at
\* least similarity_threshold and at most 1.
C8_RecordedAtLeastThreshold ==
    last_call = "find_similar_pairs" =>
        \A k \in 1..Len(duplicates) :
            /\ Geq(duplicates[k].similarity, similarity_threshold)
            /\ Geq(One, duplicates[k].similarity)

\* p before q in lexicographic order
LexLess(p, q) == p[1] < q[1] \/ (p[1] = q[1] /\ p[2] < q[2])

StrictlyIncreasing(seq) ==
    \A k \in 1..Len(seq) : \A l \in 1..Len(seq) : k < l => LexLess(seq[k], seq[l])

\* C9: find_similar_pairs on m articles makes m(m-1)/2 comparisons, one for
\* each pair of indices i < j and none of an article with itself; every
\* emitted pair has article1 at the smaller index, no pair is emitted twice,
\* and the output is in increasing (i, j) order.
C9_EachPairOnceInOrder ==
    last_call = "find_similar_pairs" =>
        /\ fsp.compared = (Len(articles) * (Len(articles) - 1)) \div 2
        /\ Len(fsp.log) = fsp.compared
        /\ \A k \in 1..Len(fsp.log) : fsp.log[k] \in IndexPairs
        /\ \A p \in IndexPairs :
            Cardinality({k \in 1..Len(fsp.log) : fsp.log[k] = p}) = 1
        /\ StrictlyIncreasing(fsp.log)
        /\ PairsAreOfIdx
        /\ \A k \in 1..Len(fsp.idx) : fsp.idx[k] \in IndexPairs
        /\ StrictlyIncreasing(fsp.idx)

C9_Witness ==
    /\ last_call = "find_similar_pairs"
    /\ Len(articles) = 3
    /\ fsp.log = << <<0, 1>>, <<0, 2>>, <<1, 2>> >>
    /\ fsp.idx = << <<0, 1>>, <<0, 2>>, <<1, 2>> >>
    /\ duplicates[2].similarity = <<3333, 10000>>

\* ------------------------------------------------------------------------
\* Properties of cluster_by_exact_match (Spec)
\* ------------------------------------------------------------------------
NormalizedTitle(i) == normalize_text(Get(articles[i], "title"))

\* the Jaccard similarity of articles[i] and articles[j] (from 1) at size n
SimilarityAt(i, j, n) ==
    calculate_jaccard_similarity(generate_ngrams(Get(articles[i], "title"), n),
                                 generate_ngrams(Get(articles[j], "title"), n))

\* cluster c holds articles[i] and articles[j] at two places
InSameCluster(i, j) ==
    \E c \in 1..Len(clusters) :
        \E x \in 1..Len(clusters[c]) : \E y \in 1..Len(clusters[c]) :
            x # y /\ clusters[c][x] = articles[i] /\ clusters[c][y] = articles[j]

InSomeCluster(i) ==
    \E c \in 1..Len(clusters) : \E x \in 1..Len(clusters[c]) : clusters[c][x] = articles[i]

\* C10 (as amended): two articles whose titles are identical after
\* normalization have Jaccard similarity 1.0 at every n >= 1; when that
\* normalized title is not empty cluster_by_exact_match places both in the
\* same cluster, and when it is empty neither is in any cluster.
C10_IdenticalTitles ==
    last_call = "cluster_by_exact_match" =>
        \A i \in 1..Len(articles) : \A j \in 1..Len(articles) :
            (i < j /\ NormalizedTitle(i) = NormalizedTitle(j)) =>
                /\ \A n \in NgramSizes : SimilarityAt(i, j, n) = One
                /\ NormalizedTitle(i) # <<>> => InSameCluster(i, j)
                /\ NormalizedTitle(i) = <<>> => ~InSomeCluster(i) /\ ~InSomeCluster(j)

C10_Witness ==
    /\ last_call = "cluster_by_exact_match"
    /\ Len(articles) = 3
    /\ Get(articles[1], "title") # Get(articles[3], "title")
    /\ NormalizedTitle(1) = NormalizedTitle(3)
    /\ NormalizedTitle(1) # <<>>
    /\ InSameCluster(1, 3)
    /\ ~InSomeCluster(2)

\* C10 (as claimed): two articles whose titles are identical after
\* normalization have similarity 1.0 at every n and are in the same cluster.
C10_IdenticalTitlesClustered ==
    last_call = "cluster_by_exact_match" =>
        \A i \in 1..Len(articles) : \A j \in 1..Len(articles) :
            (i < j /\ NormalizedTitle(i) = NormalizedTitle(j)) =>
                /\ \A n \in NgramSizes : SimilarityAt(i, j, n) = One
                /\ InSameCluster(i, j)

\* ------------------------------------------------------------------------
\* Properties of cluster_by_exact_match (SpecCluster)
\* ------------------------------------------------------------------------
EmptyTitled == {i \in 1..Len(articles) : NormalizedTitle(i) = <<>>}

\* C11: an article whose normalized title is the empty string is in no
\* cluster returned by cluster_by_exact_match, however many there are.
C11_EmptyTitleNeverClustered ==
    last_call = "cluster_by_exact_match" =>
        \A i \in EmptyTitled : ~InSomeCluster(i)

C11_Witness ==
    /\ last_call = "cluster_by_exact_match"
    /\ Cardinality(EmptyTitled) >= 2
    /\ Len(clusters) = 1
    /\ \A i \in EmptyTitled : ~InSomeCluster(i)

\* the articles that carry the normalized title of articles[i]
SameTitled(i) == {j \in 1..Len(articles) : NormalizedTitle(j) = NormalizedTitle(i)}

\* C12: every cluster has at least 2 members, and an article whose
\* normalized title no other article carries is in no cluster.
C12_AtLeastTwoMembers ==
    last_call = "cluster_by_exact_match" =>
        /\ \A c \in 1..Len(clusters) : Len(clusters[c]) >= 2
        /\ \A i \in 1..Len(articles) :
            Cardinality(SameTitled(i)) = 1 => ~InSomeCluster(i)

C12_Witness ==
    /\ last_call = "cluster_by_exact_match"
    /\ Len(clusters) = 1
    /\ Len(clusters[1]) = 2
    /\ \E i \in 1..Len(articles) :
        /\ NormalizedTitle(i) # <<>>
        /\ Cardinality(SameTitled(i)) = 1
        /\ ~InSomeCluster(i)

\* the normalized title the members of a cluster share
ClusterKey(cluster) == normalize_text(Get(cluster[1], "title"))

HasKey(article, key) == normalize_text(Get(article, "title")) = key

\* the articles with normalized title key, in corpus order
RECURSIVE TitledFrom(_, _)
TitledFrom(key, k) ==
    IF k > Len(articles) THEN <<>>
    ELSE (IF HasKey(articles[k], key) THEN <<articles[k]>> ELSE <<>>)
            \o TitledFrom(key, k + 1)

\* C13: the members of a cluster are in the order they have in the corpus:
\* a cluster is the subsequence of the corpus of the articles with its title.
C13_MembersInCorpusOrder ==
    last_call = "cluster_by_exact_match" =>
        \A c \in 1..Len(clusters) :
            clusters[c] = TitledFrom(ClusterKey(clusters[c]), 1)

C13_Witness ==
    /\ last_call = "cluster_by_exact_match"
    /\ Len(articles) = 3
    /\ Len(clusters) = 1
    /\ clusters[1] = <<articles[1], articles[3]>>
    /\ articles[1] # articles[3]

\* index of the first article with normalized title key
FirstSeen(key) == CHOOSE i \in 1..Len(articles) :
    /\ HasKey(articles[i], key)
    /\ \A j \in 1..(i - 1) : ~HasKey(articles[j], key)

ReportReturned ==
    /\ last_call = "analyze"
    /\ pc = "idle"
    /\ raised = ""
    /\ phases # <<>>
    /\ phases[Len(phases)] = "report"

\* the positions (cluster, member) of self.clusters
ClusterSlots ==
    UNION { {<<c, k>> : k \in 1..Len(clusters[c])} : c \in 1..Len(clusters) }

DigitValue(ch) == CHOOSE d \in 0..9 : DigitChars[d + 1] = ch

RECURSIVE DigitsValue(_)
DigitsValue(text) ==
    IF text = <<>> THEN 0
    ELSE 10 * DigitsValue(SubSeq(text, 1, Len(text) - 1))
            + DigitValue(text[Len(text)])

\* text has the shape d..d.dd% and reads as hundredths of a percent
IsPercentText(text) ==
    /\ Len(text) >= 5
    /\ text[Len(text)] = "%"
    /\ text[Len(text) - 3] = "."
    /\ \A k \in (1..(Len(text) - 1)) \ {Len(text) - 3} : text[k] \in Digits

Hundredths(text) ==
    DigitsValue(SubSeq(text, 1, Len(text) - 4)
                    \o SubSeq(text, Len(text) - 2, Len(text) - 1))

\* text is a / b as a percentage with 2 decimals: no number with 2 decimals
\* is nearer to 100 * a / b
IsRateOf(text, a, b) ==
    /\ IsPercentText(text)
    /\ LET diff == Hundredths(text) * b - 10000 * a
       IN  2 * (IF diff >= 0 THEN diff ELSE 0 - diff) <= b

\* a corpus {A, A, B}: three articles, the first two with one title, the
\* third with another
CorpusAAB ==
    /\ Len(articles) = 3
    /\ NormalizedTitle(1) # <<>>
    /\ NormalizedTitle(1) = NormalizedTitle(2)
    /\ NormalizedTitle(3) # <<>>
    /\ NormalizedTitle(3) # NormalizedTitle(1)

\* C15: the report that generate_report returns has, for the current
\* articles and clusters: articles_in_clusters = the sum of the cluster
\* sizes, unique_articles = total_articles - articles_in_clusters +
\* num_clusters, and duplication_rate and uniqueness_rate = these two counts
\* over total_articles as percentages with 2 decimals; for a corpus
\* {A, A, B} it has 1 cluster, 2 articles in clusters, a duplication rate of
\* 66.67% and 2 unique articles.
C15_ReportFigures ==
    ReportReturned =>
        LET total == Len(articles)
            in_clusters == Cardinality(ClusterSlots)
            unique == total - in_clusters + Len(clusters)
        IN  /\ returned.total_articles_analyzed = total
            /\ returned.exact_match_clusters.num_clusters = Len(clusters)
            /\ returned.exact_match_clusters.total_articles_in_clusters = in_clusters
            /\ returned.uniqueness_analysis.truly_unique_articles = unique
            /\ total > 0 =>
                /\ IsRateOf(returned.exact_match_clusters.duplication_rate,
                            in_clusters, total)
                /\ IsRateOf(returned.uniqueness_analysis.uniqueness_rate,
                            unique, total)
            /\ CorpusAAB =>
                /\ returned.exact_match_clusters.num_clusters = 1
                /\ returned.exact_match_clusters.total_articles_in_clusters = 2
                /\ returned.exact_match_clusters.duplication_rate
                        = <<"6","6",".","6","7","%">>
                /\ returned.uniqueness_analysis.truly_unique_articles = 2

C15_Witness ==
    /\ ReportReturned
    /\ CorpusAAB
    /\ returned.exact_match_clusters.duplication_rate = <<"6","6",".","6","7","%">>
    /\ returned.uniqueness_analysis.truly_unique_articles = 2
    /\ returned.uniqueness_analysis.uniqueness_rate = <<"6","6",".","6","7","%">>

\* analyze() has ended, by a return or by an exception, after it loaded an
\* articles.csv without rows
EmptyCorpusRun ==
    /\ last_call = "analyze"
    /\ pc = "idle"
    /\ entry.csv_exists
    /\ Len(articles) = 0

\* C16: with an empty corpus generate_report and save_results end without
\* an arithmetic fault, and the report, returned and written, has a
\* duplication rate of 0 ("0.00%"), a uniqueness rate of 0 ("0%"), zero
\* clusters and a largest cluster size of 0.
C16_EmptyCorpus ==
    EmptyCorpusRun =>
        /\ raised = ""
        /\ ReportReturned
        /\ files.report.exists /\ files.summary.exists
        /\ \A r \in {returned, files.report.content} :
            /\ r.total_articles_analyzed = 0
            /\ r.exact_match_clusters.duplication_rate = <<"0",".","0","0","%">>
            /\ r.uniqueness_analysis.uniqueness_rate = <<"0","%">>
            /\ r.exact_match_clusters.num_clusters = 0
            /\ r.exact_match_clusters.largest_cluster_size = 0

C16_Witness ==
    /\ EmptyCorpusRun
    /\ ReportReturned
    /\ entry.articles # <<>>
    /\ returned.exact_match_clusters.duplication_rate = <<"0",".","0","0","%">>
    /\ files.summary.content[5].value = <<"0",".","0","0","%">>

\* analyze() has ended, and found no articles.csv when it was called
MissingCsvRun ==
    /\ last_call = "analyze"
    /\ pc = "idle"
    /\ ~entry.csv_exists

\* C18: when articles.csv is missing, analyze() returns an empty report,
\* takes no step after the load (no clustering, matching or saving), writes
\* no output file, and leaves articles, clusters and duplicates as they were.
C18_MissingCsv ==
    MissingCsvRun =>
        /\ DOMAIN returned = {}
        /\ raised = ""
        /\ phases = <<"load">>
        /\ files = entry.files
        /\ articles = entry.articles
        /\ clusters = entry.clusters
        /\ duplicates = entry.duplicates

C18_Witness ==
    /\ MissingCsvRun
    /\ DOMAIN returned = {}
    /\ phases = <<"load">>
    /\ articles # <<>>
    /\ clusters # <<>>
    /\ duplicates # <<>>
    /\ files.report.exists
    /\ files = entry.files

\* the run of analyze() that has returned took the step named
Took(step) == \E k \in 1..Len(phases) : phases[k] = step

\* C17: in analyze(), find_similar_pairs is invoked if and only if the
\* loaded corpus has at most max_articles_for_pairwise articles; above the
\* cutoff the run produces no similar pairs (num_pairs of the report is 0
\* and similar_pairs.json holds no pair), while cluster_by_exact_match runs
\* in both cases and gives the clusters it gives without the guard.
C17_CutoffGuard ==
    ReportReturned =>
        /\ Took("match") <=> Len(articles) <= max_articles_for_pairwise
        /\ Len(articles) > max_articles_for_pairwise =>
            /\ returned.similar_pairs.num_pairs = 0
            /\ files.pairs.exists => files.pairs.content = <<>>
        /\ Took("cluster")
        /\ clusters = cluster_by_exact_match(articles)

\* ------------------------------------------------------------------------
\* Properties of rows that lack a field (Spec)
\* ------------------------------------------------------------------------
\* the field of the records written to pairs and clusters for a csv field
EmittedAs(field) == IF field = "date_parsed" THEN "date" ELSE field

\* the fields among title, url and date_parsed that a row lacks: the column
\* is absent, or the row is shorter than the header (DictReader: None)
Lacks(article) ==
    {field \in {"title", "url", "date_parsed"} :
        field \notin DOMAIN article \/ article[field] = NoneValue}

\* C19: a row that lacks title, url or date_parsed does not abort the
\* analysis; the missing field counts as the empty string in matching, and
\* every record emitted for the row in the pairs carries the empty string
\* for the missing field.
C19_MissingFieldIsEmpty ==
    last_call = "find_similar_pairs" =>
        /\ fsp.compared = (Len(articles) * (Len(articles) - 1)) \div 2
        /\ \A i \in 1..Len(articles) :
            "title" \in Lacks(articles[i]) =>
                FingerprintOf(i) = generate_ngrams(<<>>, fsp.ngram_size)
        /\ \A p \in 1..Len(duplicates) :
            /\ \A field \in Lacks(articles[fsp.idx[p][1] + 1]) :
                    duplicates[p].article1[EmittedAs(field)] = <<>>
            /\ \A field \in Lacks(articles[fsp.idx[p][2] + 1]) :
                    duplicates[p].article2[EmittedAs(field)] = <<>>

\* ------------------------------------------------------------------------
\* Properties of the in-memory collections (SpecCorpus)
\* ------------------------------------------------------------------------
\* the urls of the articles stored so far
StoredUrls == {stored[k].url : k \in 1..Len(stored)}

\* the article stored last under url
LastStored(url) ==
    stored[CHOOSE k \in 1..Len(stored) :
                /\ stored[k].url = url
                /\ \A later \in (k + 1)..Len(stored) : stored[later].url # url]

\* C20 as amended: Q2BStudioAuditor.articles never holds two records with
\* the same url: when two stored articles share a url, the later one
\* replaces the earlier one, so the number of records equals the number of
\* distinct urls stored.
C20_AuditorKeyedByUrl ==
    /\ \A i, j \in 1..Len(auditor_articles) :
            i # j => auditor_articles[i].value.url # auditor_articles[j].value.url
    /\ \A i \in 1..Len(auditor_articles) :
            /\ auditor_articles[i].key = auditor_articles[i].value.url
            /\ auditor_articles[i].key \in StoredUrls
            /\ auditor_articles[i].value = LastStored(auditor_articles[i].key)
    /\ Len(auditor_articles) = Cardinality(StoredUrls)

C20_Witness ==
    /\ Len(stored) = 3
    /\ stored[1].url = stored[3].url
    /\ stored[1] # stored[3]
    /\ stored[2].url # stored[1].url
    /\ Len(auditor_articles) = 2
    /\ auditor_articles[1].value = stored[3]
    /\ auditor_articles[2].value = stored[2]

\* C20: no in-memory corpus, the auditor's or the analyzer's, holds two
\* records with the same url: of two input rows that share a url only the
\* later one is kept, so the number of records equals the number of distinct
\* urls in the input.
C20_NoTwoRecordsShareUrl ==
    /\ \A i, j \in 1..Len(auditor_articles) :
            i # j => auditor_articles[i].value.url # auditor_articles[j].value.url
    /\ \A i, j \in 1..Len(articles) :
            i # j => Get(articles[i], "url") # Get(articles[j], "url")
    /\ last_call = "load_articles" =>
            Len(articles) <= Cardinality({Get(articles[i], "url") : i \in 1..Len(articles)})

\* ------------------------------------------------------------------------
\* Properties of runs of analyze() on one analyzer (SpecRun)
\* ------------------------------------------------------------------------
\* self.duplicates after analyze() on a newly constructed analyzer
FreshDuplicates ==
    IF MatchesPairwise(Len(articles))
    THEN find_similar_pairs(articles, similarity_threshold, 3).similar_pairs
    ELSE <<>>

\* the report without the time it was generated at
Figures(report) ==
    [input_directory |-> report.input_directory,
     similarity_threshold |-> report.similarity_threshold,
     total_articles_analyzed |-> report.total_articles_analyzed,
     exact_match_clusters |-> report.exact_match_clusters,
     similar_pairs |-> report.similar_pairs,
     uniqueness_analysis |-> report.uniqueness_analysis]

\* C21: whatever runs of analyze() came before on the same analyzer, the
\* clusters, similar pairs and report figures of a successful analyze()
\* are those of a newly constructed analyzer on the current corpus and
\* threshold.
C21_StatelessAcrossRuns ==
    ReportReturned =>
        /\ clusters = cluster_by_exact_match(articles)
        /\ duplicates = FreshDuplicates
        /\ Figures(returned) =
                Figures(generate_report(articles, FreshDuplicates,
                                        cluster_by_exact_match(articles),
                                        similarity_threshold, 0).value)

\* ------------------------------------------------------------------------
\* Properties of the order of the steps of analyze() (SpecRun)
\* ------------------------------------------------------------------------
\* The phases that a step of analyze() goes through: save_results
\* aggregates (its generate_report call) and then writes, and the return
\* statement aggregates again.
PhasesOfStep(step) ==
    IF step = "load" THEN <<"Load">>
    ELSE IF step = "cluster" THEN <<"Cluster">>
    ELSE IF step = "match" THEN <<"Match">>
    ELSE IF step = "save" THEN <<"Aggregate", "Write">>
    ELSE IF step = "report" THEN <<"Aggregate">>
    ELSE <<>>

\* the phases the run of analyze() has gone through, from its step k on
RECURSIVE PhasesFrom(_)
PhasesFrom(k) ==
    IF k > Len(phases) THEN <<>>
    ELSE PhasesOfStep(phases[k]) \o PhasesFrom(k + 1)

RunPhases == PhasesFrom(1)

IsPrefix(s, t) ==
    /\ Len(s) <= Len(t)
    /\ \A k \in 1..Len(s) : s[k] = t[k]

\* the corpus of the run is loaded and within the cutoff
WithinCutoff == Len(articles) <= max_articles_for_pairwise

\* no file of input_dir is touched before save_results
NoEarlyWrite == ~Took("save") => files = entry.files

WrittenReport == files.report.content

\* a step of analyze() that calls generate_report keeps self.articles,
\* self.clusters and self.duplicates
ReportStepKeepsData ==
    (pc = "matched" \/ pc = "saved") =>
        /\ articles' = articles
        /\ clusters' = clusters
        /\ duplicates' = duplicates

OnExample(method) ==
    /\ articles = ExampleCorpus
    /\ similarity_threshold = <<85, 100>>
    /\ last_call = method

\* the one cluster of the example: "Foo Bar" and "foo  bar!", in this order
ExampleCluster == <<ExampleCorpus[1], ExampleCorpus[2]>>

\* the example's clustering: exactly one cluster, of size 2, holding
\* "Foo Bar" and "foo  bar!" under the normalized key "foo bar"
ExampleClustersRight ==
    OnExample("cluster_by_exact_match") =>
        /\ returned = <<ExampleCluster>>
        /\ Len(returned[1]) = 2
        /\ \A k \in 1..2 :
              normalize_text(returned[1][k].title) = <<"f","o","o"," ","b","a","r">>

\* C24 as amended: for the corpus of titles ["Foo Bar", "foo  bar!",
\* "Baz Qux", "Completely Different"] with threshold 0.85 and n = 3,
\* analysis yields exactly one cluster, of size 2, holding "Foo Bar" and
\* "foo  bar!" under the normalized key "foo bar", and exactly one similar
\* pair, ("Foo Bar", "foo  bar!") with similarity 1.0; no pair has
\* "Baz Qux" or "Completely Different" in it.
C24_EndToEnd ==
    /\ ExampleClustersRight
    /\ (OnExample("find_similar_pairs") /\ fsp.ngram_size = 3) =>
          returned = << [article1 |-> Entry(ExampleCorpus[1]),
                         article2 |-> Entry(ExampleCorpus[2]),
                         similarity |-> One] >>

C24_Witness ==
    /\ OnExample("find_similar_pairs")
    /\ fsp.ngram_size = 3
    /\ clusters = <<ExampleCluster>>
    /\ Len(duplicates) = 1
    /\ fsp.compared = 6

\* C24: for the corpus of titles ["Foo Bar", "foo  bar!", "Baz Qux",
\* "Completely Different"] with threshold 0.85 and n = 3, analysis yields
\* exactly one cluster, of size 2, holding "Foo Bar" and "foo  bar!" under
\* the normalized key "foo bar", and no similar pairs above 0.85.
C24_EndToEndNoPairs ==
    /\ ExampleClustersRight
    /\ (OnExample("find_similar_pairs") /\ fsp.ngram_size = 3) =>
          returned = <<>>

\* ------------------------------------------------------------------------
\* Fingerprints are never empty (SpecText)
\* ------------------------------------------------------------------------
\* titles a fingerprint is compared with: a missing one, an empty one, one
\* that normalizes to nothing, short and long ones
OtherTitles ==
    {NoneValue, <<>>, <<"!">>, <<"a">>, <<"c","d">>, <<"a","b","c","d">>, Hello}

\* C25: for every title (missing and empty ones included) and every
\* n >= 1, the fingerprint returned by generate_ngrams is a non-empty set;
\* so when it is compared with the fingerprint of any other title, the
\* union of the two is not empty and a similarity of 0 comes from the two
\* sharing no n-gram, never from the convention for an empty fingerprint.
C25_FingerprintNeverEmpty ==
    (stage = "ngrams" /\ arg_n >= 1) =>
        /\ ret # {}
        /\ \A other \in OtherTitles :
              LET fingerprint == generate_ngrams(other, arg_n)
              IN  /\ fingerprint # {}
                  /\ ret \cup fingerprint # {}
                  /\ calculate_jaccard_similarity(ret, fingerprint) = Zero
                        => ret \cap fingerprint = {}

C25_Witness ==
    /\ stage = "ngrams"
    /\ arg_n = 3
    /\ arg_text = NoneValue
    /\ ret = {<<>>}
    /\ calculate_jaccard_similarity(ret, generate_ngrams(<<"!">>, arg_n)) = One

\* ------------------------------------------------------------------------
\* What the two passes leave as it is (Spec)
\* ------------------------------------------------------------------------
\* C26: after a call of cluster_by_exact_match or of find_similar_pairs the
\* corpus holds the same article records, with the same field values, in
\* the same order; cluster_by_exact_match leaves the stored similar pairs
\* unchanged and find_similar_pairs leaves the stored clusters unchanged.
C26_InputNotMutated ==
    [][/\ last_call' = "cluster_by_exact_match" =>
            /\ articles' = articles
            /\ duplicates' = duplicates
       /\ last_call' = "find_similar_pairs" =>
            /\ articles' = articles
            /\ clusters' = clusters]_vars

C26_Witness ==
    /\ last_call = "cluster_by_exact_match"
    /\ Len(articles) >= 2
    /\ clusters # <<>>
    /\ duplicates # <<>>
    /\ fsp.compared > 0

\* ------------------------------------------------------------------------
\* The clusters as a partition (SpecCluster)
\* ------------------------------------------------------------------------
\* the articles (by their place in the corpus) whose normalized title is
\* not empty and is the normalized title of another article too
SharedTitled ==
    {i \in 1..Len(articles) :
        NormalizedTitle(i) # <<>> /\ Cardinality(SameTitled(i)) >= 2}

\* the places of the corpus whose article has the normalized title key
PlacesTitled(key) == {i \in 1..Len(articles) : NormalizedTitle(i) = key}

\* C27: the clusters returned by cluster_by_exact_match are a partition of
\* exactly the articles whose non-empty normalized title is shared by at
\* least one other article: all members of a cluster have the same
\* normalized title, two distinct clusters have different normalized
\* titles, each article is in at most one cluster and appears in it once
\* (a cluster has as many members as the corpus has articles of its
\* title, and the clusters together as many as there are articles with a
\* shared title), and every article with a non-empty normalized title
\* shared by another article is in some cluster.
C27_ClustersPartition ==
    last_call = "cluster_by_exact_match" =>
        /\ \A c \in 1..Len(clusters) :
              /\ ClusterKey(clusters[c]) # <<>>
              /\ \A k \in 1..Len(clusters[c]) :
                    HasKey(clusters[c][k], ClusterKey(clusters[c]))
              /\ Len(clusters[c]) = Cardinality(PlacesTitled(ClusterKey(clusters[c])))
              /\ PlacesTitled(ClusterKey(clusters[c])) \subseteq SharedTitled
        /\ \A c \in 1..Len(clusters) : \A d \in 1..Len(clusters) :
              c # d => ClusterKey(clusters[c]) # ClusterKey(clusters[d])
        /\ Cardinality(ClusterSlots) = Cardinality(SharedTitled)
        /\ \A i \in SharedTitled :
              \E c \in 1..Len(clusters) :
                  /\ ClusterKey(clusters[c]) = NormalizedTitle(i)
                  /\ \E k \in 1..Len(clusters[c]) : clusters[c][k] = articles[i]

C27_Witness ==
    /\ last_call = "cluster_by_exact_match"
    /\ Len(articles) = 4
    /\ Len(clusters) = 1
    /\ Cardinality(SharedTitled) = 2
    /\ \E i \in SharedTitled : \E j \in SharedTitled :
          Get(articles[i], "title") # Get(articles[j], "title")
    /\ EmptyTitled # {}

\* ------------------------------------------------------------------------
\* Bounds on the figures of a report (SpecRun)
\* ------------------------------------------------------------------------
\* the largest len(cluster) over self.clusters, 0 when there is none
RECURSIVE MaxSizeFrom(_)
MaxSizeFrom(c) ==
    IF c > Len(clusters) THEN 0
    ELSE IF Len(clusters[c]) >= MaxSizeFrom(c + 1) THEN Len(clusters[c])
    ELSE MaxSizeFrom(c + 1)

C29_FilesAgreeWithLatestRun ==
    ReportReturned =>
        /\ files.pairs.exists =>
            /\ Len(files.pairs.content) = returned.similar_pairs.num_pairs
            /\ files.pairs.content = duplicates
        /\ files.clusters.exists =>
            /\ Len(files.clusters.content)
                 = Min(TopClusters, returned.exact_match_clusters.num_clusters)
            /\ files.clusters.content = ClustersData(clusters)
            /\ \A c \in 1..Len(files.clusters.content) :
                 /\ files.clusters.content[c].cluster_id = c
                 /\ files.clusters.content[c].size
                      = Len(files.clusters.content[c].articles)

\* ------------------------------------------------------------------------
\* The matcher covers the clusterer (Spec)
\* ------------------------------------------------------------------------
\* the sum over the clusters clus[c..] of k(k-1)/2, k the cluster's size
RECURSIVE PairsWithinFrom(_, _)
PairsWithinFrom(clus, c) ==
    IF c > Len(clus) THEN 0
    ELSE (Len(clus[c]) * (Len(clus[c]) - 1)) \div 2 + PairsWithinFrom(clus, c + 1)

\* find_similar_pairs emitted the pair of a and b, in this order, with
\* similarity 1.0
EmittedAsIdentical(a, b) ==
    \E p \in 1..Len(duplicates) :
        /\ duplicates[p].article1 = Entry(a)
        /\ duplicates[p].article2 = Entry(b)
        /\ duplicates[p].similarity = One

\* C30: when pairwise matching has run with a threshold <= 1, every two
\* distinct members of the same exact-match cluster (the clusters
\* cluster_by_exact_match gives for the corpus) are emitted by
\* find_similar_pairs as a similar pair with similarity 1.0, so num_pairs
\* is at least the sum over all clusters of k(k-1)/2, k the cluster's size.
C30_MatcherCoversClusterer ==
    (last_call = "find_similar_pairs" /\ Geq(One, similarity_threshold)) =>
        \A clus \in {cluster_by_exact_match(articles)} :
            /\ \A c \in 1..Len(clus) :
                  \A x \in 1..Len(clus[c]) : \A y \in 1..Len(clus[c]) :
                      x < y => EmittedAsIdentical(clus[c][x], clus[c][y])
            /\ Len(duplicates) >= PairsWithinFrom(clus, 1)

C30_Witness ==
    /\ last_call = "find_similar_pairs"
    /\ similarity_threshold = <<85, 100>>
    /\ fsp.ngram_size = 3
    /\ Len(articles) = 3
    /\ clusters # <<>>
    /\ Len(clusters[1]) = 3
    /\ clusters = cluster_by_exact_match(articles)
    /\ Len(duplicates) = 3
    /\ \E i \in 1..3 : articles[i].title # articles[1].title

====
